---- MODULE Spec2Model ----
(***************************************************************************)
(* Model of the todo application: one table `todo` (models.py) behind six  *)
(* FastAPI handlers (main.py), each run with a session from get_db.        *)
(*                                                                         *)
(* A request is: get_db opens a session, the handler body runs, get_db's   *)
(* finally closes the session.  The handlers are `async def` bodies with   *)
(* no await, so inside one server process a body runs from its query to    *)
(* its commit without another body in between: Spec serves the requests of *)
(* one process, one after another.  Bodies of different server processes   *)
(* interleave at their statements: SpecConc runs one request in each slot, *)
(* each slot a process of its own, on a table an earlier run has left.     *)
(***************************************************************************)
EXTENDS Integers, Sequences, FiniteSets

\* ---------------------------------------------------------------- bounds
\* Add requests served in one behaviour (rows ever created).
MaxAdds == 3

\* Rows in the table a server can find in the database file when it starts.
MaxRows == 2

\* Request slots: requests that can be in progress at the same time.
Requests == {"r1", "r2"}

\* Task descriptions a form can submit; the empty string is accepted.
Tasks == {"", "Buy milk"}

\* Ids a path parameter can carry: every id a row can have here, so
\* existing and missing ids both occur.
IdRange == 1 .. MaxAdds

\* What the form field `completed` of POST /edit can carry.
FormBool == {"omitted", "true", "false"}

\* The result of .first() when no row matches (Python None).
None == [id |-> 0, task |-> "", completed |-> FALSE, seq |-> 0]

VARIABLES
    store,      \* the rows of table todo: set of [id, task, completed, seq]
    clock,      \* rows created so far; a row's `seq` is its creation stamp
    deletedIds, \* history: ids whose row a Delete removed
    pc,         \* slot -> "idle" | "open" | "fetched" | "returned" | "raised"
    sess,       \* slot -> "none" | "open" | "closed": the slot's db session
    closes,     \* slot -> how often the current request's session was closed
    req,        \* slot -> its latest request: op, path id, form fields
    snap,       \* slot -> the row that request's query loaded, or None
    resp,       \* slot -> the response to it (status, body)
    overlap,    \* history: slot -> what committed on its row since it loaded it
    conflict,   \* history: some commit hit a row another request had loaded
    serial      \* history: the store had every handler run alone, in commit order

vars == <<store, clock, deletedIds, pc, sess, closes, req, snap, resp,
          overlap, conflict, serial>>

\* ------------------------------------------------------------ the table
\* models.py: class ToDo, columns id, task, completed (seq is history only).
Row(i, t, c, s) == [id |-> i, task |-> t, completed |-> c, seq |-> s]

Ids(s) == {r.id : r \in s}

MaxOf(S) == CHOOSE m \in S : \A x \in S : x <= m

\* (variant: the filter is missing, .first() of the whole table)
FetchAnyRow(s, i) == IF s = {} THEN None ELSE CHOOSE r \in s : TRUE

\* db.query(ToDo).filter(ToDo.id == todo_id).first()
Fetch(s, i) ==
    IF \E r \in s : r.id = i THEN CHOOSE r \in s : r.id = i ELSE None

\* (variant: the largest rowid itself, the increment forgotten)
NewIdNoIncrement(s) == IF s = {} THEN 1 ELSE MaxOf(Ids(s))

\* (variant: the lowest rowid no row has, so any freed id is taken again)
NewIdLowestFree(s) == CHOOSE i \in 1 .. Cardinality(s) + 1 : i \notin Ids(s)

\* The rowid SQLite gives an INSERT into a table whose key is a plain
\* INTEGER PRIMARY KEY (no AUTOINCREMENT): one more than the largest rowid
\* now in the table, 1 for an empty table.
NewId(s) == IF s = {} THEN 1 ELSE MaxOf(Ids(s)) + 1

\* db.add(ToDo(task=task)); db.commit(): INSERT, completed defaults to False.
AddCommit(s, t, stamp) == s \cup {Row(NewId(s), t, FALSE, stamp)}

\* (variant: UPDATE of every column assigned, changed or not)
FlushAllColumns(s, old, new) ==
    IF old.id \notin Ids(s) THEN [ok |-> FALSE, store |-> s]
    ELSE [ok |-> TRUE,
          store |-> {IF r.id = old.id
                       THEN [r EXCEPT !.task = new.task,
                                      !.completed = new.completed]
                       ELSE r : r \in s}]

\* The flush of a loaded row whose attributes were assigned: the session's
\* UPDATE sets only the columns whose new value differs from the loaded one,
\* WHERE id = the loaded id.  No changed column: no statement.  No row matched:
\* the flush raises (StaleDataError) and nothing is committed.
Flush(s, old, new) ==
    LET sameTask == new.task = old.task
        sameDone == new.completed = old.completed
        Upd(r) == [r EXCEPT !.task = IF sameTask THEN r.task ELSE new.task,
                            !.completed = IF sameDone THEN r.completed
                                          ELSE new.completed]
    IN  IF sameTask /\ sameDone THEN [ok |-> TRUE, store |-> s]
        ELSE IF old.id \notin Ids(s) THEN [ok |-> FALSE, store |-> s]
        ELSE [ok |-> TRUE,
              store |-> {IF r.id = old.id THEN Upd(r) ELSE r : r \in s}]

\* (variant: the flag is flipped, not set)
CompleteToggle(s, old) ==
    Flush(s, old, [old EXCEPT !.completed = ~old.completed])

\* todo.completed = True; db.commit()
CompleteCommit(s, old) == Flush(s, old, [old EXCEPT !.completed = TRUE])

\* (variant: the assignment to todo.completed is missing)
EditTaskOnly(s, old, t, c) == Flush(s, old, [old EXCEPT !.task = t])

\* todo.task = task; todo.completed = completed; db.commit()
EditCommit(s, old, t, c) ==
    Flush(s, old, [old EXCEPT !.task = t, !.completed = c])

\* (variant: db.commit() is missing, the DELETE never reaches the table)
DeleteNoCommit(s, old) == [ok |-> TRUE, store |-> s]

\* db.delete(todo); db.commit(): DELETE WHERE id = the loaded id; a DELETE
\* that matches no row only warns.
DeleteCommit(s, old) == [ok |-> TRUE, store |-> {r \in s : r.id # old.id}]

\* (variant: order_by(ToDo.id), smallest id first)
RECURSIVE ListAllAsc(_)
ListAllAsc(s) ==
    IF s = {} THEN <<>>
    ELSE LET low == CHOOSE r \in s : \A x \in s : r.id <= x.id
         IN  <<low>> \o ListAllAsc(s \ {low})

\* db.query(ToDo).order_by(ToDo.id.desc()): every row, largest id first.
RECURSIVE ListAllDesc(_)
ListAllDesc(s) ==
    IF s = {} THEN <<>>
    ELSE LET top == CHOOSE r \in s : \A x \in s : x.id <= r.id
         IN  <<top>> \o ListAllDesc(s \ {top})

\* (variant: db.close() after the yield, with no try/finally)
GetDbExitNoFinally(outcome) == IF outcome = "raised" THEN "open" ELSE "closed"

\* get_db's finally: db.close() runs however the handler ended.
GetDbExit(outcome) == "closed"

\* completed: bool = Form(False): the parsed field, False when left out.
FormCompleted(v) == v = "true"

\* ------------------------------------------------- handlers run alone
\* What one handler does to the table when nothing runs beside it: the
\* reference the concurrent runs are compared with.
RunAlone(s, r, stamp) ==
    CASE r.op = "add" ->
           s \cup {Row(IF s = {} THEN 1 ELSE MaxOf(Ids(s)) + 1,
                       r.task, FALSE, stamp)}
      [] r.op = "complete" ->
           {IF x.id = r.id THEN [x EXCEPT !.completed = TRUE] ELSE x : x \in s}
      [] r.op = "edit" ->
           {IF x.id = r.id
              THEN [x EXCEPT !.task = r.task,
                            !.completed = (r.completed = "true")]
              ELSE x : x \in s}
      [] r.op = "delete" -> {x \in s : x.id # r.id}
      [] OTHER -> s

\* ------------------------------------------------------------- requests
NoReq == [op |-> "none", id |-> 0, task |-> "", completed |-> "omitted"]
NoResp == [status |-> 0, body |-> <<>>]
Request(o, i, t, c) == [op |-> o, id |-> i, task |-> t, completed |-> c]
Response(st, b) == [status |-> st, body |-> b]

\* The requests other than p that have loaded row i and not yet committed.
Loaded(p, i) == {q \in Requests \ {p} : pc[q] = "fetched" /\ req[q].id = i}

Worse(a, b) ==
    LET rank(x) == CASE x = "none" -> 0 [] x = "disjoint" -> 1
                     [] x = "edit" -> 2 [] OTHER -> 3
    IN  IF rank(a) >= rank(b) THEN a ELSE b

\* History kept at a commit by p that writes row i (kind: "edit" or "other").
Touch(p, i, kind) ==
    /\ overlap' = [q \in Requests |->
                     IF q = p \/ pc[q] # "fetched" THEN overlap[q]
                     ELSE IF req[q].id = i THEN Worse(overlap[q], kind)
                     ELSE Worse(overlap[q], "disjoint")]
    /\ conflict' = (conflict \/ Loaded(p, i) # {})

\* History: the table had the handlers run one after another.
Shadow(r, stamp) ==
    serial' = IF conflict' THEN store' ELSE RunAlone(serial, r, stamp)

InitCommon ==
    /\ deletedIds = {}
    /\ pc = [p \in Requests |-> "idle"]
    /\ sess = [p \in Requests |-> "none"]
    /\ closes = [p \in Requests |-> 0]
    /\ req = [p \in Requests |-> NoReq]
    /\ snap = [p \in Requests |-> None]
    /\ resp = [p \in Requests |-> NoResp]
    /\ overlap = [p \in Requests |-> "none"]
    /\ conflict = FALSE

\* A server started on a database file that create_all has just made: the
\* table is empty.
Init ==
    /\ InitCommon
    /\ store = {}
    /\ clock = 0
    /\ serial = {}

\* The tables an earlier run can have left in the database file, which
\* create_all keeps: n rows added, ids 1..n, each then edited at will.
Tables ==
    UNION {{ {Row(i, f[i][1], f[i][2], i) : i \in 1 .. n} :
             f \in [1 .. n -> Tasks \X BOOLEAN] } : n \in 0 .. MaxRows}

\* A server started on a database file of an earlier run.
InitConc ==
    /\ InitCommon
    /\ store \in Tables
    /\ clock = Cardinality(store)
    /\ serial = store

\* get_db: db = session(); yield db.  A new request takes the slot: what
\* the slot kept of the last one goes.
Open(p) ==
    /\ pc[p] = "idle"
    /\ pc' = [pc EXCEPT ![p] = "open"]
    /\ sess' = [sess EXCEPT ![p] = "open"]
    /\ closes' = [closes EXCEPT ![p] = 0]
    /\ req' = [req EXCEPT ![p] = NoReq]
    /\ snap' = [snap EXCEPT ![p] = None]
    /\ resp' = [resp EXCEPT ![p] = NoResp]
    /\ overlap' = [overlap EXCEPT ![p] = "none"]
    /\ UNCHANGED <<store, clock, deletedIds, conflict, serial>>

\* A slot that serves one request only.
OpenOnce(p) == sess[p] = "none" /\ Open(p)

\* GET /
Home(p) ==
    /\ pc[p] = "open"
    /\ pc' = [pc EXCEPT ![p] = "returned"]
    /\ req' = [req EXCEPT ![p] = Request("home", 0, "", "omitted")]
    /\ resp' = [resp EXCEPT ![p] = Response(200, ListAllDesc(store))]
    /\ UNCHANGED <<store, clock, deletedIds, sess, closes, snap,
                   overlap, conflict, serial>>

\* POST /add
AddTask(p) ==
    /\ pc[p] = "open"
    /\ clock < MaxAdds
    /\ \E t \in Tasks :
         /\ store' = AddCommit(store, t, clock + 1)
         /\ req' = [req EXCEPT ![p] = Request("add", 0, t, "omitted")]
         /\ Touch(p, NewId(store), "other")
         /\ Shadow(Request("add", 0, t, "omitted"), clock + 1)
    /\ clock' = clock + 1
    /\ pc' = [pc EXCEPT ![p] = "returned"]
    /\ resp' = [resp EXCEPT ![p] = Response(303, <<>>)]
    /\ UNCHANGED <<deletedIds, sess, closes, snap>>

\* GET /edit/{todo_id}
EditForm(p) ==
    /\ pc[p] = "open"
    /\ \E i \in IdRange :
         /\ req' = [req EXCEPT ![p] = Request("form", i, "", "omitted")]
         /\ resp' = [resp EXCEPT ![p] = Response(200, <<Fetch(store, i)>>)]
    /\ pc' = [pc EXCEPT ![p] = "returned"]
    /\ UNCHANGED <<store, clock, deletedIds, sess, closes, snap,
                   overlap, conflict, serial>>

\* The query that opens /complete, POST /edit and /delete; on None the next
\* statement of the body raises, before any commit.
Query(p, r) ==
    /\ pc[p] = "open"
    /\ req' = [req EXCEPT ![p] = r]
    /\ snap' = [snap EXCEPT ![p] = Fetch(store, r.id)]
    /\ IF Fetch(store, r.id) = None
         THEN /\ pc' = [pc EXCEPT ![p] = "raised"]
              /\ resp' = [resp EXCEPT ![p] = Response(500, <<>>)]
         ELSE /\ pc' = [pc EXCEPT ![p] = "fetched"]
              /\ resp' = resp
    /\ UNCHANGED <<store, clock, deletedIds, sess, closes,
                   overlap, conflict, serial>>

\* The commit that ends a body, with the flush's result out.
Commit(p, out, kind) ==
    /\ store' = out.store
    /\ Touch(p, req[p].id, kind)
    /\ Shadow(req[p], clock)
    /\ pc' = [pc EXCEPT ![p] = IF out.ok THEN "returned" ELSE "raised"]
    /\ resp' = [resp EXCEPT ![p] = Response(IF out.ok THEN 303 ELSE 500, <<>>)]
    /\ UNCHANGED <<clock, sess, closes, req, snap>>

\* GET /complete/{todo_id}
CompleteQuery(p) ==
    \E i \in IdRange : Query(p, Request("complete", i, "", "omitted"))

CompleteDone(p) ==
    /\ pc[p] = "fetched" /\ req[p].op = "complete"
    /\ Commit(p, CompleteCommit(store, snap[p]), "other")
    /\ UNCHANGED deletedIds

\* POST /edit/{todo_id}: completed is False when the form leaves it out.
EditQuery(p) ==
    \E i \in IdRange, t \in Tasks, c \in FormBool :
        Query(p, Request("edit", i, t, c))

EditDone(p) ==
    /\ pc[p] = "fetched" /\ req[p].op = "edit"
    /\ Commit(p, EditCommit(store, snap[p], req[p].task,
                            FormCompleted(req[p].completed)),
              "edit")
    /\ UNCHANGED deletedIds

\* GET /delete/{todo_id}
DeleteQuery(p) ==
    \E i \in IdRange : Query(p, Request("delete", i, "", "omitted"))

DeleteDone(p) ==
    /\ pc[p] = "fetched" /\ req[p].op = "delete"
    /\ Commit(p, DeleteCommit(store, snap[p]), "other")
    /\ deletedIds' = IF snap[p].id \in Ids(store)
                       THEN deletedIds \cup {snap[p].id} ELSE deletedIds

\* get_db: finally db.close(); the response is out and the slot is free.
Close(p) ==
    /\ pc[p] \in {"returned", "raised"}
    /\ sess' = [sess EXCEPT ![p] = GetDbExit(pc[p])]
    /\ closes' = [closes EXCEPT ![p] = IF GetDbExit(pc[p]) = "closed"
                                         THEN closes[p] + 1 ELSE closes[p]]
    /\ pc' = [pc EXCEPT ![p] = "idle"]
    /\ UNCHANGED <<store, clock, deletedIds, req, snap, resp, overlap,
                   conflict, serial>>

\* One process: the slot "r1" serves request after request.
Next ==
    \E p \in {"r1"} :
        \/ Open(p)
        \/ Home(p)
        \/ AddTask(p)
        \/ EditForm(p)
        \/ CompleteQuery(p)
        \/ CompleteDone(p)
        \/ EditQuery(p)
        \/ EditDone(p)
        \/ DeleteQuery(p)
        \/ DeleteDone(p)
        \/ Close(p)

Spec == Init /\ [][Next]_vars

\* A process per slot: the handlers that write, one request in each slot,
\* their statements interleaving.
NextConc ==
    \E p \in Requests :
        \/ OpenOnce(p)
        \/ AddTask(p)
        \/ CompleteQuery(p)
        \/ CompleteDone(p)
        \/ EditQuery(p)
        \/ EditDone(p)
        \/ DeleteQuery(p)
        \/ DeleteDone(p)
        \/ Close(p)

SpecConc == InitConc /\ [][NextConc]_vars

\* ------------------------------------------------------------ the steps
\* The step in which slot p's body ends, having run handler o.
AddStep(p) == pc[p] = "open" /\ pc'[p] = "returned" /\ req'[p].op = "add"

BodyEnds(p, o) == pc[p] = "fetched" /\ req[p].op = o /\ pc'[p] # "fetched"

\* The step in which slot p's body queries for an id that no row has.
QueryMissing(p, o) ==
    pc[p] = "open" /\ req'[p].op = o /\ req'[p].id \notin Ids(store)

Elems(l) == {l[k] : k \in 1 .. Len(l)}

\* ------------------------------------------------------------------- C1
\* C1: a successful Add creates exactly one new task, with the submitted
\* text (the empty string included) and completed false, under an id no
\* existing task has; every task that was there is unchanged; the listing
\* taken right after shows the new task first.
C1_AddCreatesOneTask ==
    [][\A p \in Requests : AddStep(p) =>
         LET new == store' \ store
         IN  /\ resp'[p].status = 303
             /\ store \subseteq store'
             /\ Cardinality(new) = 1
             /\ \A r \in new :
                  /\ r.task = req'[p].task
                  /\ r.completed = FALSE
                  /\ r.id \notin Ids(store)
                  /\ ListAllDesc(store')[1] = r]_vars

\* An Add of the empty description has returned; its row is the newest of
\* several.
C1_Witness ==
    \E p \in Requests :
        /\ pc[p] = "returned" /\ req[p].op = "add" /\ req[p].task = ""
        /\ resp[p].status = 303
        /\ Cardinality(store) >= 2
        /\ \E r \in store : r.seq = clock /\ r.task = "" /\ ~r.completed

\* ------------------------------------------------------------------- C2
\* C2: the ids that Adds assign are pairwise distinct (as many ids as Adds,
\* while nothing was deleted), and the listing holds every task, by id
\* descending, which is latest created first.
C2_ListNewestFirst ==
    /\ deletedIds = {} =>
         Cardinality(Ids(store)) = clock /\ Cardinality(store) = clock
    /\ \A p \in Requests :
         (pc[p] = "returned" /\ req[p].op = "home") =>
           LET l == resp[p].body
           IN  /\ resp[p].status = 200
               /\ Elems(l) = store
               /\ Len(l) = Cardinality(store)
               /\ \A j, k \in 1 .. Len(l) :
                    j < k => l[j].id > l[k].id /\ l[j].seq > l[k].seq

\* A listing of three tasks, after three Adds and no Delete.
C2_Witness ==
    \E p \in Requests :
        /\ pc[p] = "returned" /\ req[p].op = "home"
        /\ Len(resp[p].body) = 3 /\ clock = 3 /\ deletedIds = {}

\* ------------------------------------------------------------------- C3
\* C3: Complete on an id that exists sets that task's completed flag to
\* true whatever it was, leaves its id and text and every other task as
\* they were, adds and removes nothing; the next listing shows the flag.
C3_CompleteSetsFlag ==
    [][\A p \in Requests : BodyEnds(p, "complete") =>
         LET old == Fetch(store, req[p].id)
             new == [old EXCEPT !.completed = TRUE]
         IN  /\ pc'[p] = "returned" /\ resp'[p].status = 303
             /\ old \in store
             /\ store' = (store \ {old}) \cup {new}
             /\ Cardinality(store') = Cardinality(store)
             /\ new \in Elems(ListAllDesc(store'))]_vars

\* A Complete of a task that was completed already has returned, with
\* another task in the table.
C3_Witness ==
    \E p \in Requests :
        /\ pc[p] = "returned" /\ req[p].op = "complete"
        /\ snap[p].completed
        /\ Fetch(store, req[p].id).completed
        /\ Cardinality(store) >= 2

\* ------------------------------------------------------------------- C4
\* C4: Edit submit on an id that exists overwrites both fields: the text
\* is the submitted text, the flag is the submitted value, false when the
\* field is left out (a completed task edited without it is not completed
\* afterwards); the id and every other task are unchanged, and a fetch of
\* the id returns the new values.
C4_EditOverwritesBoth ==
    [][\A p \in Requests : BodyEnds(p, "edit") =>
         LET old == Fetch(store, req[p].id)
             new == [old EXCEPT !.task = req[p].task,
                                !.completed = (req[p].completed = "true")]
         IN  /\ pc'[p] = "returned" /\ resp'[p].status = 303
             /\ old \in store
             /\ store' = (store \ {old}) \cup {new}
             /\ Fetch(store', req[p].id) = new
             /\ (req[p].completed = "omitted" => ~new.completed)]_vars

\* An Edit without the completed field has returned on a task that was
\* completed and had another text: the task has the new text and is not
\* completed.
C4_Witness ==
    \E p \in Requests :
        /\ pc[p] = "returned" /\ req[p].op = "edit"
        /\ req[p].completed = "omitted"
        /\ snap[p].completed /\ snap[p].task # req[p].task
        /\ Fetch(store, req[p].id).task = req[p].task
        /\ ~Fetch(store, req[p].id).completed


\* ------------------------------------------------------------------- C5
\* C5, as claimed: once a Delete has removed an id, every later listing
\* omits it and a later fetch of it finds nothing.
C5_DeletedIdStaysGone ==
    \A i \in deletedIds :
        Fetch(store, i) = None /\ \A r \in Elems(ListAllDesc(store)) : r.id # i

\* C5, amended: Delete on an id that exists removes exactly that task and
\* leaves the others unchanged; the listing and a fetch right after do not
\* have the id, and it stays absent until an Add assigns it again (which
\* the store does when no task with that or a higher id is left); a second
\* Delete of the id while it is absent fails.
C5_DeleteRemovesTask ==
    [][/\ \A p \in Requests : BodyEnds(p, "delete") =>
            LET old == Fetch(store, req[p].id)
            IN  /\ pc'[p] = "returned" /\ resp'[p].status = 303
                /\ old \in store
                /\ store' = store \ {old}
                /\ Fetch(store', req[p].id) = None
                /\ \A r \in Elems(ListAllDesc(store')) : r.id # req[p].id
       /\ \A i \in deletedIds :
            (i \notin Ids(store) /\ i \in Ids(store')) =>
               /\ \E p \in Requests : AddStep(p)
               /\ \A r \in store : r.id < i
       /\ \A p \in Requests :
            (QueryMissing(p, "delete") /\ req'[p].id \in deletedIds) =>
               pc'[p] = "raised" /\ resp'[p].status = 500 /\ store' = store
      ]_vars

\* A second Delete of a deleted id has failed, other tasks being there.
C5_Witness ==
    \E p \in Requests :
        /\ pc[p] = "raised" /\ req[p].op = "delete"
        /\ req[p].id \in deletedIds /\ req[p].id \notin Ids(store)
        /\ store # {}

\* ------------------------------------------------------------------- C6
\* C6: Complete, Edit submit and Delete on an id that no task has fail, with
\* no redirect, before any commit: the table is exactly as it was.
C6_MissingIdFails ==
    [][\A p \in Requests, o \in {"complete", "edit", "delete"} :
         QueryMissing(p, o) =>
            /\ pc'[p] = "raised"
            /\ resp'[p].status = 500
            /\ store' = store /\ clock' = clock]_vars

\* An Edit of an id that no task has has failed, with tasks in the table.
C6_Witness ==
    \E p \in Requests :
        /\ pc[p] = "raised" /\ req[p].op = "edit" /\ resp[p].status = 500
        /\ req[p].id \notin Ids(store)
        /\ store # {}

\* ------------------------------------------------------------------- C7
\* C7: a request's session is open while the request runs and closed once
\* it has finished, however the handler ended, and it is closed once.
C7_SessionClosed ==
    \A p \in Requests :
        /\ pc[p] = "idle" => sess[p] # "open"
        /\ pc[p] # "idle" => sess[p] = "open" /\ closes[p] = 0
        /\ sess[p] = "closed" => closes[p] = 1
        /\ closes[p] <= 1

\* A request whose handler failed has finished: its session is closed.
C7_Witness ==
    \E p \in Requests :
        /\ pc[p] = "idle" /\ resp[p].status = 500
        /\ sess[p] = "closed" /\ closes[p] = 1

\* ------------------------------------------------------------------ C10
\* C10, as claimed: no Add assigns an id that a deleted task had.
C10_DeletedIdNotReused ==
    [][\A p \in Requests : AddStep(p) =>
         \A r \in store' \ store : r.id \notin deletedIds]_vars

\* C10, amended: an Add assigns an id that is higher than the id of every
\* task in the store, so never the id of an existing task, and the id of a
\* deleted task only when no task with that or a higher id is left; no
\* operation changes the id of an existing task.
C10_IdAboveAllPresent ==
    [][/\ \A p \in Requests : AddStep(p) =>
            \A r \in store' \ store : \A x \in store : r.id > x.id
       /\ \A r \in store, x \in store' : r.seq = x.seq => r.id = x.id
      ]_vars

\* An Add has returned whose task has the id of a deleted task, beside an
\* older task.
C10_Witness ==
    \E p \in Requests :
        /\ pc[p] = "returned" /\ req[p].op = "add"
        /\ \E r \in store : r.seq = clock /\ r.id \in deletedIds
        /\ Cardinality(store) >= 2

\* ------------------------------------------------------------------- C8
Writers == {"add", "complete", "edit", "delete"}

\* C8: requests that address different rows do not interfere.  As long as
\* no commit has hit a row that another request had loaded, the table is
\* the one the same requests leave when run one after another (in the order
\* of their commits), and a request whose row nobody else wrote between its
\* query and its commit does to the table what it does when run alone.
C8_DifferentRowsSerial ==
    [][/\ ~conflict' => store' = serial'
       /\ \A p \in Requests :
            AddStep(p) => store' = RunAlone(store, req'[p], clock')
       /\ \A p \in Requests, o \in Writers :
            (BodyEnds(p, o) /\ overlap[p] \in {"none", "disjoint"}) =>
               /\ pc'[p] = "returned" /\ resp'[p].status = 303
               /\ store' = RunAlone(store, req[p], clock)
      ]_vars

\* An Edit has committed after another request, between the Edit's query
\* and its commit, wrote to a different row; both have returned.
C8_Witness ==
    \E p, q \in Requests :
        /\ p # q /\ ~conflict
        /\ pc[p] = "returned" /\ req[p].op = "edit"
        /\ overlap[p] = "disjoint"
        /\ pc[q] \in {"returned", "idle"} /\ req[q].op \in {"add", "delete"}
        /\ resp[q].status = 303

\* ------------------------------------------------------------------- C9
\* C9, as claimed: of two Edits of one row that both loaded it before either
\* committed, both succeed and the row ends with the text and the flag that
\* the later commit submitted.
C9_LastCommitWins ==
    [][\A p \in Requests :
         (BodyEnds(p, "edit") /\ overlap[p] = "edit") =>
            /\ pc'[p] = "returned" /\ resp'[p].status = 303
            /\ Fetch(store', req[p].id).task = req[p].task
            /\ Fetch(store', req[p].id).completed
                 = (req[p].completed = "true")]_vars

\* C9, amended: both Edits succeed, with no error and no detection, and the
\* later commit writes each field whose submitted value differs from the
\* value it loaded; a field it submits as loaded keeps what the earlier
\* commit wrote.  The id and every other task are unchanged.
C9_LastCommitWritesChanges ==
    [][\A p \in Requests :
         (BodyEnds(p, "edit") /\ overlap[p] = "edit") =>
            LET cur == Fetch(store, req[p].id)
                done == (req[p].completed = "true")
                new == [cur EXCEPT
                          !.task = IF req[p].task # snap[p].task
                                     THEN req[p].task ELSE cur.task,
                          !.completed = IF done # snap[p].completed
                                          THEN done ELSE cur.completed]
            IN  /\ pc'[p] = "returned" /\ resp'[p].status = 303
                /\ cur \in store
                /\ store' = (store \ {cur}) \cup {new}]_vars

\* Two Edits of one row have both returned, the later having loaded the
\* row before the earlier committed; the row has the earlier one's text,
\* not the text the later one submitted.
C9_Witness ==
    \E p, q \in Requests :
        /\ p # q
        /\ pc[p] = "returned" /\ req[p].op = "edit" /\ overlap[p] = "edit"
        /\ resp[p].status = 303
        /\ req[q].op = "edit" /\ req[q].id = req[p].id
        /\ resp[q].status = 303
        /\ Fetch(store, req[p].id).task # req[p].task
        /\ Fetch(store, req[p].id).task = req[q].task

====
